---- MODULE Spec2Model ----
(***************************************************************************)
(* A model of the WordPress-export to Markdown converter (src/convert.py). *)
(*                                                                         *)
(* Text is modelled at character level: a Python str is a sequence of      *)
(* one-character strings (<<"<", "b", ">">> is "<b>"), so that the regular *)
(* expressions and str.replace calls of the source are modelled by what    *)
(* they do to the characters.  The one character written with more than    *)
(* one letter is NBSP, the no-break space U+00A0.                          *)
(*                                                                         *)
(* Python's None is the value None below; it differs from every text of    *)
(* the model, the empty text included.                                     *)
(***************************************************************************)
EXTENDS Integers, Sequences, FiniteSets, TLC

VARIABLES
    pc,             \* position of the run: "start", the step within
                    \* html_to_markdown, or "done"
    title,          \* sanitize_filename: its argument
    slug,           \* sanitize_filename: its return value
    xml_source,     \* parse_wordpress_xml: the document
    post_types,     \* parse_wordpress_xml: the type filter
    post_statuses,  \* parse_wordpress_xml: the status filter
    ns,             \* parse_wordpress_xml: the resolved namespace context
    posts,          \* parse_wordpress_xml: the returned list of records
    calls,          \* html_to_markdown: 1 in the first call, 2 in the call on
                    \* the first call's own return value
    html_content,   \* html_to_markdown: its argument
    content,        \* html_to_markdown: the text being rewritten
    iframes,        \* html_to_markdown: the iframe placeholder table
    scripts,        \* html_to_markdown: the script placeholder table
    markdown,       \* html_to_markdown: its return value
    previous,       \* the argument and return value of the first call, in the
                    \* second
    date_prefix,    \* generate_markdown_files: whether filenames get YYYYMMDD-
    yaml_frontmatter, \* generate_markdown_files: the header style
    results,        \* generate_markdown_files: the (filename, content) pairs
    written,        \* main: how many pairs the write loop has written
    directory       \* main: the output directory, filename -> file content

vars == <<pc, title, slug, xml_source, post_types, post_statuses, ns, posts,
          calls, html_content, content, iframes, scripts, markdown, previous,
          date_prefix, yaml_frontmatter, results, written, directory>>

slugVars == <<title, slug>>
xmlVars == <<xml_source, post_types, post_statuses, ns, posts>>
htmlVars == <<calls, html_content, content, iframes, scripts, markdown, previous>>
fileVars == <<date_prefix, yaml_frontmatter, results, written, directory>>

None == "None"

\* the state of the file generation before generate_markdown_files is called
NoFiles ==
    /\ date_prefix = TRUE
    /\ yaml_frontmatter = FALSE
    /\ results = <<>>
    /\ written = 0
    /\ directory = <<>>

-----------------------------------------------------------------------------
(* Characters and strings *)

NBSP == "nbsp"

UpperCase == {"A", "B", "C", "D", "E", "F", "G", "H", "I", "J", "K", "L", "M",
              "N", "O", "P", "Q", "R", "S", "T", "U", "V", "W", "X", "Y", "Z"}

LowerCase == {"a", "b", "c", "d", "e", "f", "g", "h", "i", "j", "k", "l", "m",
              "n", "o", "p", "q", "r", "s", "t", "u", "v", "w", "x", "y", "z"}

Digits == {"0", "1", "2", "3", "4", "5", "6", "7", "8", "9"}

\* the characters Python's \s and str.strip() treat as whitespace
Whitespace == {" ", "\t", "\n", "\r", "\f", NBSP}

\* the characters Python's \w matches: letters, digits and the underscore
WordChars == UpperCase \cup LowerCase \cup Digits \cup {"_"}

LowerMap ==
    ("A" :> "a") @@ ("B" :> "b") @@ ("C" :> "c") @@ ("D" :> "d") @@
    ("E" :> "e") @@ ("F" :> "f") @@ ("G" :> "g") @@ ("H" :> "h") @@
    ("I" :> "i") @@ ("J" :> "j") @@ ("K" :> "k") @@ ("L" :> "l") @@
    ("M" :> "m") @@ ("N" :> "n") @@ ("O" :> "o") @@ ("P" :> "p") @@
    ("Q" :> "q") @@ ("R" :> "r") @@ ("S" :> "s") @@ ("T" :> "t") @@
    ("U" :> "u") @@ ("V" :> "v") @@ ("W" :> "w") @@ ("X" :> "x") @@
    ("Y" :> "y") @@ ("Z" :> "z")

\* str.lower() on one character
LowerChar(c) == IF c \in UpperCase THEN LowerMap[c] ELSE c

\* str.lower()
Lower(s) == [k \in 1..Len(s) |-> LowerChar(s[k])]

Min(S) == CHOOSE x \in S : \A y \in S : x <= y

Max(S) == CHOOSE x \in S : \A y \in S : x >= y

\* the pattern pat occurs in s at position i
StartsAt(s, i, pat) ==
    /\ i >= 1
    /\ i + Len(pat) - 1 <= Len(s)
    /\ \A k \in 1..Len(pat) : s[i + k - 1] = pat[k]

\* the same, ignoring case (re.IGNORECASE); pat is given in lower case
StartsAtI(s, i, pat) ==
    /\ i >= 1
    /\ i + Len(pat) - 1 <= Len(s)
    /\ \A k \in 1..Len(pat) : LowerChar(s[i + k - 1]) = pat[k]

\* the first position >= i where pat occurs in s, 0 when there is none
FirstAt(s, i, pat) ==
    LET S == {j \in i..Len(s) : StartsAt(s, j, pat)}
    IN  IF S = {} THEN 0 ELSE Min(S)

FirstAtI(s, i, pat) ==
    LET S == {j \in i..Len(s) : StartsAtI(s, j, pat)}
    IN  IF S = {} THEN 0 ELSE Min(S)

\* the first position >= i of a character of the set C, 0 when there is none
FirstIn(s, i, C) ==
    LET S == {j \in i..Len(s) : j >= 1 /\ s[j] \in C}
    IN  IF S = {} THEN 0 ELSE Min(S)

\* s without the characters of C at its two ends (str.strip)
Strip(s, C) ==
    LET keep == {k \in 1..Len(s) : s[k] \notin C}
    IN  IF keep = {} THEN <<>> ELSE SubSeq(s, Min(keep), Max(keep))

\* all sequences over S of length at most n
SeqUpTo(S, n) == UNION {[1..k -> S] : k \in 0..n}

\* the concatenation of a sequence of strings
RECURSIVE Concat(_)
Concat(ss) == IF ss = <<>> THEN <<>> ELSE Head(ss) \o Concat(Tail(ss))

-----------------------------------------------------------------------------
(* sanitize_filename *)

\* re.sub(r'[^\w\s-]', '', s)
RemoveNonSlugChars(s) ==
    SelectSeq(s, LAMBDA c : c \in WordChars \cup Whitespace \cup {"-"})

\* re.sub(r'[-\s]+', '-', s): every maximal run becomes one hyphen
RECURSIVE CollapseFrom(_, _)
CollapseFrom(s, i) ==
    IF i > Len(s) THEN <<>>
    ELSE IF s[i] \in Whitespace \cup {"-"}
         THEN LET rest == {j \in i..Len(s) : s[j] \notin Whitespace \cup {"-"}}
                  e == IF rest = {} THEN Len(s) + 1 ELSE Min(rest)
              IN  <<"-">> \o CollapseFrom(s, e)
         ELSE <<s[i]>> \o CollapseFrom(s, i + 1)

CollapseHyphens(s) == CollapseFrom(s, 1)

\* a slip: the final strip('-') left out
StripHyphens_NoStrip(s) == s

\* slug.strip('-')
StripHyphens(s) == Strip(s, {"-"})

sanitize_filename(t) ==
    StripHyphens(CollapseHyphens(RemoveNonSlugChars(Lower(t))))

MaxTitleLen == 4

TitleChars == {"A", "b", "1", "_", " ", "\n", "-", "!"}

Titles == SeqUpTo(TitleChars, MaxTitleLen)

InitSlug ==
    /\ pc = "start"
    /\ title \in Titles
    /\ slug = None
    /\ xml_source = <<>> /\ post_types = None /\ post_statuses = None
    /\ ns = None /\ posts = <<>>
    /\ calls = 0 /\ html_content = <<>> /\ content = <<>> /\ iframes = <<>>
    /\ scripts = <<>> /\ markdown = None /\ previous = None
    /\ NoFiles

Sanitize ==
    /\ pc = "start"
    /\ slug' = sanitize_filename(title)
    /\ pc' = "done"
    /\ UNCHANGED <<title, xmlVars, htmlVars, fileVars>>

NextSlug == Sanitize

SpecSlug == InitSlug /\ [][NextSlug]_vars

\* the positions of s holding a character of C, and the i-th of them
PositionsIn(s, C) == {k \in 1..Len(s) : s[k] \in C}

Nth(P, i) == CHOOSE k \in P : Cardinality({j \in P : j < k}) = i - 1

\* C9 as stated: the returned slug consists only of lower-case letters, digits
\* and single hyphens, and neither starts nor ends with a hyphen.
C9_SlugOnlyLettersDigitsHyphens ==
    pc = "done" =>
        /\ \A k \in 1..Len(slug) : slug[k] \in LowerCase \cup Digits \cup {"-"}
        /\ \A k \in 1..Len(slug) - 1 : ~(slug[k] = "-" /\ slug[k + 1] = "-")
        /\ slug # <<>> => slug[1] # "-" /\ slug[Len(slug)] # "-"

\* C9 amended: the returned slug is the lower-cased title's word characters
\* (letters, digits and the underscore) in their order, with exactly one hyphen
\* between two neighbours that had whitespace or a hyphen between them in the
\* title and nothing between the others; so it consists only of lower-case
\* letters, digits, underscores and single hyphens and neither starts nor ends
\* with a hyphen.
C9_SlugShape ==
    pc = "done" =>
        LET low == Lower(title)
            P == PositionsIn(low, WordChars)
            Q == {k \in 1..Len(slug) : slug[k] # "-"}
            n == Cardinality(P)
        IN  /\ \A k \in 1..Len(slug) :
                    slug[k] \in LowerCase \cup Digits \cup {"_", "-"}
            /\ Cardinality(Q) = n
            /\ \A i \in 1..n : slug[Nth(Q, i)] = low[Nth(P, i)]
            /\ n = 0 => slug = <<>>
            /\ n > 0 => Nth(Q, 1) = 1 /\ Nth(Q, n) = Len(slug)
            /\ \A i \in 1..n - 1 :
                    LET separated ==
                            \E p \in Nth(P, i)..Nth(P, i + 1) :
                                low[p] \in Whitespace \cup {"-"}
                    IN  Nth(Q, i + 1) = Nth(Q, i) + (IF separated THEN 2 ELSE 1)

\* a title with an underscore, a removed character and a run of separators
C9_Witness ==
    /\ pc = "done"
    /\ title = <<"_", " ", "-", "A">>
    /\ slug = <<"_", "-", "a">>

-----------------------------------------------------------------------------
(* The export document *)

(* An element is its namespace URI ("" when its tag has none), its local   *)
(* name, its text (None when it has none: ElementTree never gives "") and  *)
(* its domain attribute (None when it has none).  A document is the        *)
(* sequence of the elements below <channel> in document order: an <item>   *)
(* element opens an item, the elements up to the next <item> are its       *)
(* children, and the elements before the first <item> are the channel's.   *)

Elem(uri, name, text, domain) ==
    [ns |-> uri, name |-> name, text |-> text, domain |-> domain]

ITEM == Elem("", "item", None, None)

\* what find() returns when no element matches (Python's None)
NoElement == Elem(None, None, None, None)

WP12 == "http://wordpress.org/export/1.2/"
WP11 == "http://wordpress.org/export/1.1/"
WP10 == "http://wordpress.org/export/1.0/"
\* an export-namespace URI of a version the code does not know
WPNew == "http://wordpress.org/export/1.3/"
\* an export-namespace URI outside the wordpress.org/export family
WPForeign == "http://example.org/wxr/2.0/"
CONTENT_NS == "http://purl.org/rss/1.0/modules/content/"
DC_NS == "http://purl.org/dc/elements/1.1/"

\* 'wordpress.org/export' in ns_uri, over the URIs of the model
InExportFamily(uri) == uri \in {WP12, WP11, WP10, WPNew}

\* root.find('.//{uri}name') is not None
HasElement(doc, uri, name) ==
    \E k \in 1..Len(doc) : doc[k].ns = uri /\ doc[k].name = name

\* the known versions, in the order the code probes them
KnownVersions == <<WP12, WP11, WP10>>

\* the walk of root.iter(): the namespace of the first element whose
\* namespace is of the export family, '' when there is none
ScanNamespace(doc) ==
    LET S == {k \in 1..Len(doc) : doc[k].ns # "" /\ InExportFamily(doc[k].ns)}
    IN  IF S = {} THEN "" ELSE doc[Min(S)].ns

\* the fallback loop over ('1.2', '1.1', '1.0')
ProbeNamespace(doc) ==
    LET S == {v \in 1..Len(KnownVersions) :
                  HasElement(doc, KnownVersions[v], "post_type")}
    IN  IF S = {} THEN "" ELSE KnownVersions[Min(S)]

_detect_wp_namespace(doc) ==
    LET scanned == ScanNamespace(doc)
        probed == IF scanned = "" THEN ProbeNamespace(doc) ELSE scanned
        wp_ns == IF probed = "" THEN WP12 ELSE probed
    IN  [wp |-> wp_ns, content |-> CONTENT_NS, dc |-> DC_NS]

\* root.findall('.//item'): the positions of the items, in document order
ItemPositions(doc) == {k \in 1..Len(doc) : doc[k] = ITEM}

\* the children of the item at position k
Children(doc, k) ==
    LET later == {j \in ItemPositions(doc) : j > k}
        e == IF later = {} THEN Len(doc) ELSE Min(later) - 1
    IN  SubSeq(doc, k + 1, e)

\* item.find(tag): the first child with that tag
Find(children, uri, name) ==
    LET S == {j \in 1..Len(children) :
                  children[j].ns = uri /\ children[j].name = name}
    IN  IF S = {} THEN NoElement ELSE children[Min(S)]

\* el.text if el is not None and el.text else default
TextOrDefault(el, default) ==
    IF el # NoElement /\ el.text # None /\ el.text # "" THEN el.text ELSE default

\* el.text if el is not None else ''
TextIfPresent(el) == IF el # NoElement THEN el.text ELSE ""

\* cat.text or ''
TextOrEmpty(el) == IF el.text # None /\ el.text # "" THEN el.text ELSE ""

\* a slip: every category child taken, whatever its domain
DomainTexts_AnyDomain(children, domain) ==
    LET cats == SelectSeq(children, LAMBDA c : c.ns = "" /\ c.name = "category")
    IN  [j \in 1..Len(cats) |-> TextOrEmpty(cats[j])]

\* the loop over item.findall('category'), for one of its two lists:
\* cat.attrib.get('domain', '') == domain
RECURSIVE DomainTexts(_, _)
DomainTexts(children, domain) ==
    IF children = <<>> THEN <<>>
    ELSE LET cat == Head(children)
             rest == DomainTexts(Tail(children), domain)
             dom == IF cat.domain = None THEN "" ELSE cat.domain
         IN  IF cat.ns = "" /\ cat.name = "category" /\ dom = domain
             THEN <<TextOrEmpty(cat)>> \o rest
             ELSE rest

\* a filter: None (no filter) or a set of accepted values
NoFilter == [none |-> TRUE, members |-> {}]
Only(S) == [none |-> FALSE, members |-> S]

\* a slip: the status filter not applied
Skipped_TypeOnly(ptype, status, types, statuses) ==
    ~types.none /\ ptype \notin types.members

\* the two 'continue' tests of the loop body
Skipped(ptype, status, types, statuses) ==
    \/ ~types.none /\ ptype \notin types.members
    \/ ~statuses.none /\ status \notin statuses.members

\* a slip: the text taken without the fallback
TitleOf_NoFallback(children) ==
    LET el == Find(children, "", "title")
    IN  IF el # NoElement /\ el.text # None THEN el.text ELSE ""

TitleOf(children) == TextOrDefault(Find(children, "", "title"), "Untitled")

\* the dict appended for an item
Record(children, nsmap) ==
    [title |-> TitleOf(children),
     content |-> TextIfPresent(Find(children, nsmap.content, "encoded")),
     date |-> TextIfPresent(Find(children, nsmap.wp, "post_date")),
     slug |-> TextIfPresent(Find(children, nsmap.wp, "post_name")),
     type |-> TextOrDefault(Find(children, nsmap.wp, "post_type"), "post"),
     status |-> TextOrDefault(Find(children, nsmap.wp, "status"), ""),
     categories |-> DomainTexts(children, "category"),
     tags |-> DomainTexts(children, "post_tag")]

\* the loop over the items from position k on
RECURSIVE ParseItems(_, _, _, _, _)
ParseItems(doc, k, nsmap, types, statuses) ==
    IF k > Len(doc) THEN <<>>
    ELSE IF doc[k] # ITEM THEN ParseItems(doc, k + 1, nsmap, types, statuses)
    ELSE LET children == Children(doc, k)
             rec == Record(children, nsmap)
             rest == ParseItems(doc, k + 1, nsmap, types, statuses)
         IN  IF Skipped(rec.type, rec.status, types, statuses)
             THEN rest
             ELSE <<rec>> \o rest

parse_wordpress_xml(doc, types, statuses) ==
    ParseItems(doc, 1, _detect_wp_namespace(doc), types, statuses)

\* the model's bound on the number of elements of a document
MaxElems == 4

\* the elements a document is drawn from, one alphabet per concern
FilterElems ==
    {ITEM,
     Elem("", "title", "T", None), Elem("", "title", None, None),
     Elem(WP12, "post_type", "page", None), Elem(WP12, "post_type", None, None),
     Elem(WP12, "status", "publish", None), Elem(WP12, "status", "draft", None),
     Elem(WP12, "status", None, None)}

NamespaceElems ==
    {ITEM,
     Elem(WPNew, "wxr_version", "1.3", None),
     Elem(WPForeign, "wxr_version", "2.0", None),
     Elem(WP12, "post_type", "page", None),
     Elem(WP11, "post_type", "page", None),
     Elem(WP10, "post_type", "page", None),
     Elem(WP11, "status", "publish", None),
     Elem(WP12, "post_name", "s", None)}

CategoryElems ==
    {ITEM,
     Elem("", "category", "a", "category"), Elem("", "category", "b", "category"),
     Elem("", "category", "a", "post_tag"), Elem("", "category", "b", "post_tag"),
     Elem("", "category", "a", "nav_menu"), Elem("", "category", "a", None),
     Elem("", "category", None, "category")}

FieldElems ==
    {ITEM,
     Elem(CONTENT_NS, "encoded", "c", None), Elem(CONTENT_NS, "encoded", None, None),
     Elem(WP12, "post_date", "d", None), Elem(WP12, "post_date", None, None),
     Elem(WP12, "post_name", "s", None), Elem(WP12, "post_name", None, None),
     Elem(DC_NS, "creator", "x", None)}

TypeFilters == {NoFilter, Only({"post"}), Only({"page"}), Only({})}

StatusFilters == {NoFilter, Only({"publish"}), Only({""})}

InitXml ==
    /\ pc = "start"
    /\ \/ /\ xml_source \in SeqUpTo(FilterElems, MaxElems)
          /\ post_types \in TypeFilters
          /\ post_statuses \in StatusFilters
       \/ /\ xml_source \in SeqUpTo(NamespaceElems, MaxElems)
                              \cup SeqUpTo(CategoryElems, MaxElems)
                              \cup SeqUpTo(FieldElems, MaxElems)
          /\ post_types = NoFilter
          /\ post_statuses = NoFilter
    /\ ns = None
    /\ posts = <<>>
    /\ title = <<>> /\ slug = None
    /\ calls = 0 /\ html_content = <<>> /\ content = <<>> /\ iframes = <<>>
    /\ scripts = <<>> /\ markdown = None /\ previous = None
    /\ NoFiles

Parse ==
    /\ pc = "start"
    /\ ns' = _detect_wp_namespace(xml_source)
    /\ posts' = parse_wordpress_xml(xml_source, post_types, post_statuses)
    /\ pc' = "done"
    /\ UNCHANGED <<xml_source, post_types, post_statuses, slugVars, htmlVars,
                   fileVars>>

NextXml == Parse

SpecXml == InitXml /\ [][NextXml]_vars

(* What the claims about the Export Reader speak of *)

\* the positions of the document's items, and the children of the item at k
Items == ItemPositions(xml_source)

ChildrenOf(k) == Children(xml_source, k)

\* the text of the item's first child {uri}name, "" when the child is
\* missing or has no text
ItemText(k, uri, name) ==
    LET el == Find(ChildrenOf(k), uri, name)
    IN  IF el = NoElement \/ el.text = None THEN "" ELSE el.text

\* the item's type and status as the claims define them, read under the
\* resolved export namespace
ItemType(k) ==
    IF ItemText(k, ns.wp, "post_type") = "" THEN "post"
    ELSE ItemText(k, ns.wp, "post_type")

ItemStatus(k) == ItemText(k, ns.wp, "status")

Accepted(k) ==
    /\ post_types.none \/ ItemType(k) \in post_types.members
    /\ post_statuses.none \/ ItemStatus(k) \in post_statuses.members

\* the items a record is due for; the i-th of them is the i-th record's
AcceptedItems == {k \in Items : Accepted(k)}

ItemOf(i) == Nth(AcceptedItems, i)

\* C1: a record is returned for an item iff its type (missing or empty:
\* 'post') passes the type filter and its status (missing or empty: '') passes
\* the status filter; the records are those of the accepted items, in order.
C1_FilterCorrect ==
    pc = "done" =>
        /\ Len(posts) = Cardinality(AcceptedItems)
        /\ \A i \in 1..Len(posts) :
              /\ posts[i].type = ItemType(ItemOf(i))
              /\ posts[i].status = ItemStatus(ItemOf(i))
              /\ post_types.none \/ posts[i].type \in post_types.members
              /\ post_statuses.none \/ posts[i].status \in post_statuses.members

\* two items under both filters: the first, without a post_type, is returned
\* with the default type; the second, a page, is not
C1_Witness ==
    /\ pc = "done"
    /\ post_types = Only({"post"})
    /\ post_statuses = Only({""})
    /\ xml_source = <<ITEM, Elem("", "title", "T", None), ITEM,
                      Elem(WP12, "post_type", "page", None)>>
    /\ Len(posts) = 1
    /\ posts[1].type = "post" /\ posts[1].title = "T"

\* C4: every returned record has a non-empty title and a non-empty type; a
\* missing or text-less <title> gives 'Untitled', a missing or text-less
\* post_type gives 'post'.
C4_TitleAndTypeNeverEmpty ==
    pc = "done" =>
        \A i \in 1..Len(posts) :
            /\ posts[i].title \notin {"", None}
            /\ posts[i].type \notin {"", None}
            /\ ItemText(ItemOf(i), "", "title") = "" => posts[i].title = "Untitled"
            /\ ItemText(ItemOf(i), "", "title") # "" =>
                   posts[i].title = ItemText(ItemOf(i), "", "title")
            /\ ItemText(ItemOf(i), ns.wp, "post_type") = "" => posts[i].type = "post"

\* an item whose <title> and post_type are present without text
C4_Witness ==
    /\ pc = "done"
    /\ xml_source = <<ITEM, Elem("", "title", None, None),
                      Elem(WP12, "post_type", None, None)>>
    /\ Len(posts) = 1
    /\ posts[1].title = "Untitled" /\ posts[1].type = "post"

\* an export-namespace URI that is none of the three known ones
UnknownExportURIs == {WPNew, WPForeign}

\* the first known URI, in the order 1.2, 1.1, 1.0, with a post_type element
FirstKnownWithPostType ==
    KnownVersions[Min({v \in 1..Len(KnownVersions) :
                           HasElement(xml_source, KnownVersions[v], "post_type")})]

\* C5: when some element uses an unknown export-namespace URI and a post_type
\* element exists under a known one, the namespace resolves to the first known
\* URI (1.2, 1.1, 1.0) that has a post_type element, and each record's type is
\* read from the item's post_type element under it.
C5_UnknownNamespaceResolved ==
    (/\ pc = "done"
     /\ \E k \in 1..Len(xml_source) : xml_source[k].ns \in UnknownExportURIs
     /\ \E v \in 1..Len(KnownVersions) :
            HasElement(xml_source, KnownVersions[v], "post_type"))
    => /\ ns.wp = FirstKnownWithPostType
       /\ \A i \in 1..Len(posts) :
              ItemText(ItemOf(i), FirstKnownWithPostType, "post_type") # "" =>
                  posts[i].type = ItemText(ItemOf(i), FirstKnownWithPostType, "post_type")

\* the texts of the item's <category> children of one domain, in order
CategoryTexts(k, domain) ==
    LET cs == SelectSeq(ChildrenOf(k),
                        LAMBDA c : c.ns = "" /\ c.name = "category" /\ c.domain = domain)
    IN  [j \in 1..Len(cs) |-> IF cs[j].text = None THEN "" ELSE cs[j].text]

\* C7: a record's categories are the texts of the item's <category> children
\* of domain 'category', its tags those of domain 'post_tag', each in document
\* order with duplicates kept; other children are in neither list.
C7_CategoriesPartitioned ==
    pc = "done" =>
        \A i \in 1..Len(posts) :
            /\ posts[i].categories = CategoryTexts(ItemOf(i), "category")
            /\ posts[i].tags = CategoryTexts(ItemOf(i), "post_tag")

\* a repeated category around a tag, and a child of another domain
C7_Witness ==
    /\ pc = "done"
    /\ \E i \in 1..Len(posts) :
          /\ posts[i].categories = <<"a", "a">>
          /\ posts[i].tags = <<"b">>
          /\ ChildrenOf(ItemOf(i)) = <<Elem("", "category", "a", "category"),
                                        Elem("", "category", "b", "post_tag"),
                                        Elem("", "category", "a", "category")>>

\* C8: in every returned record content, date and slug are strings, never
\* None, and are '' when the element is absent or has no text.
C8_OptionalFieldsAreStrings ==
    pc = "done" =>
        \A i \in 1..Len(posts) :
            /\ posts[i].content # None /\ posts[i].date # None /\ posts[i].slug # None
            /\ posts[i].content = ItemText(ItemOf(i), CONTENT_NS, "encoded")
            /\ posts[i].date = ItemText(ItemOf(i), ns.wp, "post_date")
            /\ posts[i].slug = ItemText(ItemOf(i), ns.wp, "post_name")

-----------------------------------------------------------------------------
(* Regular-expression substitution *)

(* A match is where it starts, the position after its end, and its groups. *)
NoMatch == [ok |-> FALSE, start |-> 0, end |-> 0, g1 |-> <<>>, g2 |-> <<>>]

Match(i, e, a, b) == [ok |-> TRUE, start |-> i, end |-> e, g1 |-> a, g2 |-> b]

\* the non-overlapping matches of a pattern in s, left to right, as
\* re.sub and re.findall find them; MatchAt(s, i) is the match starting at i
AllMatches(s, MatchAt(_, _)) ==
    LET starts == {i \in 1..Len(s) : MatchAt(s, i).ok}
        from[i \in 1..Len(s) + 1] ==
            LET later == {j \in starts : j >= i}
            IN  IF later = {} THEN <<>>
                ELSE LET m == MatchAt(s, Min(later))
                     IN  <<m>> \o from[m.end]
    IN  from[1]

\* s with each match of ms replaced by Repl(m, k), k the match's number from 1
Substitute(s, ms, Repl(_, _)) ==
    LET n == Len(ms)
        gap(k) == SubSeq(s, IF k = 1 THEN 1 ELSE ms[k - 1].end,
                            IF k > n THEN Len(s) ELSE ms[k].start - 1)
    IN  Concat([j \in 1..2 * n + 1 |->
                    IF j % 2 = 1 THEN gap((j + 1) \div 2)
                    ELSE Repl(ms[j \div 2], j \div 2)])

\* re.sub(pattern, repl, s)
ReSub(s, MatchAt(_, _), Repl(_, _)) == Substitute(s, AllMatches(s, MatchAt), Repl)

\* the occurrence of the literal text old at i
LiteralAt(s, i, old) ==
    IF StartsAt(s, i, old) THEN Match(i, i + Len(old), <<>>, <<>>) ELSE NoMatch

\* str.replace(old, new): every non-overlapping occurrence, left to right
Replace(s, old, new) ==
    ReSub(s, LAMBDA t, i : LiteralAt(t, i, old), LAMBDA m, k : new)

\* str(n) for a natural number
RECURSIVE Decimal(_)
Decimal(n) ==
    LET digit == <<"0", "1", "2", "3", "4", "5", "6", "7", "8", "9">>
    IN  IF n < 10 THEN <<digit[n + 1]>>
        ELSE Decimal(n \div 10) \o <<digit[(n % 10) + 1]>>

\* sep.join(ss)
RECURSIVE Join(_, _)
Join(ss, sep) ==
    IF ss = <<>> THEN <<>>
    ELSE IF Len(ss) = 1 THEN ss[1]
    ELSE ss[1] \o sep \o Join(Tail(ss), sep)

\* n copies of the character c
Repeat(c, n) == [k \in 1..n |-> c]

-----------------------------------------------------------------------------
(* html.unescape *)

(* The named character references of the model: the five the converter's   *)
(* own clean-up names, each with and without its semicolon, as in the      *)
(* html5 table of the standard library.  Numeric references are not        *)
(* modelled: the bodies of the model hold no '#'.                          *)
Html5 ==
    <<[name |-> <<"a", "m", "p", ";">>, value |-> <<"&">>], [name |-> <<"a", "m", "p">>, value |-> <<"&">>],
      [name |-> <<"l", "t", ";">>, value |-> <<"<">>], [name |-> <<"l", "t">>, value |-> <<"<">>],
      [name |-> <<"g", "t", ";">>, value |-> <<">">>], [name |-> <<"g", "t">>, value |-> <<">">>],
      [name |-> <<"q", "u", "o", "t", ";">>, value |-> <<"\"">>], [name |-> <<"q", "u", "o", "t">>, value |-> <<"\"">>],
      [name |-> <<"n", "b", "s", "p", ";">>, value |-> <<NBSP>>], [name |-> <<"n", "b", "s", "p">>, value |-> <<NBSP>>]>>

\* the characters that end a reference's name: [^\t\n\f <&#;]
NameStop == {"\t", "\n", "\f", " ", "<", "&", "#", ";"}

\* the longest name a reference may have: {1,32}
MaxNameLen == 32

IsEntity(name) == \E e \in 1..Len(Html5) : Html5[e].name = name

EntityValue(name) == Html5[CHOOSE e \in 1..Len(Html5) : Html5[e].name = name].value

\* replace_charref: the whole name when the table has it, else the longest
\* prefix of at least two characters the table has, else the text as it was
ReplaceCharref(name) ==
    IF IsEntity(name) THEN EntityValue(name)
    ELSE LET X == {x \in 2..Len(name) - 1 : IsEntity(SubSeq(name, 1, x))}
         IN  IF X = {} THEN <<"&">> \o name
             ELSE EntityValue(SubSeq(name, 1, Max(X)))
                      \o SubSeq(name, Max(X) + 1, Len(name))

\* &([^\t\n\f <&#;]{1,32};?)
CharrefAt(s, i) ==
    IF s[i] # "&" THEN NoMatch
    ELSE LET stop == FirstIn(s, i + 1, NameStop)
             run == IF stop = 0 THEN Len(s) - i ELSE stop - i - 1
             len == IF run > MaxNameLen THEN MaxNameLen ELSE run
             e == i + len + 1
             semi == e <= Len(s) /\ s[e] = ";"
             e2 == IF semi THEN e + 1 ELSE e
         IN  IF len = 0 THEN NoMatch
             ELSE Match(i, e2, SubSeq(s, i + 1, e2 - 1), <<>>)

Unescape(s) == ReSub(s, CharrefAt, LAMBDA m, k : ReplaceCharref(m.g1))

\* content.replace('<![CDATA[', '').replace(']]>', '')
RemoveCdata(s) == Replace(Replace(s, <<"<", "!", "[", "C", "D", "A", "T", "A", "[">>, <<>>), <<"]", "]", ">">>, <<>>)

-----------------------------------------------------------------------------
(* The patterns of html_to_markdown *)

\* <name[^>]*>(.*?)</name> with re.DOTALL: the opening tag runs to the first
\* '>', the body to the first closing tag after it
PairAt(s, i, name) ==
    LET open == <<"<">> \o name
        close == <<"<", "/">> \o name \o <<">">>
        g == IF StartsAt(s, i, open) THEN FirstIn(s, i + Len(open), {">"}) ELSE 0
        c == IF g = 0 THEN 0 ELSE FirstAt(s, g + 1, close)
    IN  IF c = 0 THEN NoMatch
        ELSE Match(i, c + Len(close), SubSeq(s, g + 1, c - 1), <<>>)

\* the same with re.IGNORECASE; name is given in lower case
PairAtI(s, i, name) ==
    LET open == <<"<">> \o name
        close == <<"<", "/">> \o name \o <<">">>
        g == IF StartsAtI(s, i, open) THEN FirstIn(s, i + Len(open), {">"}) ELSE 0
        c == IF g = 0 THEN 0 ELSE FirstAtI(s, g + 1, close)
    IN  IF c = 0 THEN NoMatch
        ELSE Match(i, c + Len(close), SubSeq(s, g + 1, c - 1), <<>>)

Quotes == {"\"", "'"}

\* the positions k >= from where attr (as 'src=') starts, reachable from
\* `from` over [^>]*, and followed by a quoted value: ["\']([^"\']*)["\']
AttrStarts(s, from, attr) ==
    {k \in from..Len(s) :
        /\ \A j \in from..k - 1 : s[j] # ">"
        /\ StartsAt(s, k, attr)
        /\ k + Len(attr) <= Len(s)
        /\ s[k + Len(attr)] \in Quotes
        /\ FirstIn(s, k + Len(attr) + 1, Quotes) # 0}

\* for an attribute starting at k: the position of its closing quote, its value
AttrClose(s, k, attr) == FirstIn(s, k + Len(attr) + 1, Quotes)

AttrValue(s, k, attr) == SubSeq(s, k + Len(attr) + 1, AttrClose(s, k, attr) - 1)

\* <a[^>]*href=["\']([^"\']*)["\'][^>]*>(.*?)</a> with re.DOTALL; the greedy
\* [^>]* takes the last href= from which the rest still matches
LinkAt(s, i) ==
    IF ~StartsAt(s, i, <<"<", "a">>) THEN NoMatch
    ELSE LET href == <<"h", "r", "e", "f", "=">>
             gt(k) == FirstIn(s, AttrClose(s, k, href) + 1, {">"})
             close(k) == IF gt(k) = 0 THEN 0 ELSE FirstAt(s, gt(k) + 1, <<"<", "/", "a", ">">>)
             K == {k \in AttrStarts(s, i + 2, href) : close(k) # 0}
         IN  IF K = {} THEN NoMatch
             ELSE LET k == Max(K)
                  IN  Match(i, close(k) + 4, AttrValue(s, k, href),
                            SubSeq(s, gt(k) + 1, close(k) - 1))

\* <img[^>]*src=["\']([^"\']*)["\'][^>]*alt=["\']([^"\']*)["\'][^>]*/?>
ImgAltAt(s, i) ==
    IF ~StartsAt(s, i, <<"<", "i", "m", "g">>) THEN NoMatch
    ELSE LET src == <<"s", "r", "c", "=">>
             alt == <<"a", "l", "t", "=">>
             alts(k) == {a \in AttrStarts(s, AttrClose(s, k, src) + 1, alt) :
                             FirstIn(s, AttrClose(s, a, alt) + 1, {">"}) # 0}
             K == {k \in AttrStarts(s, i + 4, src) : alts(k) # {}}
         IN  IF K = {} THEN NoMatch
             ELSE LET k == Max(K)
                      a == Max(alts(k))
                  IN  Match(i, FirstIn(s, AttrClose(s, a, alt) + 1, {">"}) + 1,
                            AttrValue(s, k, src), AttrValue(s, a, alt))

\* <img[^>]*src=["\']([^"\']*)["\'][^>]*/?>
ImgAt(s, i) ==
    IF ~StartsAt(s, i, <<"<", "i", "m", "g">>) THEN NoMatch
    ELSE LET src == <<"s", "r", "c", "=">>
             K == {k \in AttrStarts(s, i + 4, src) :
                       FirstIn(s, AttrClose(s, k, src) + 1, {">"}) # 0}
         IN  IF K = {} THEN NoMatch
             ELSE LET k == Max(K)
                  IN  Match(i, FirstIn(s, AttrClose(s, k, src) + 1, {">"}) + 1,
                            AttrValue(s, k, src), <<>>)

\* <br\s*/?>
BrAt(s, i) ==
    IF ~StartsAt(s, i, <<"<", "b", "r">>) THEN NoMatch
    ELSE LET rest == {j \in i + 3..Len(s) : s[j] \notin Whitespace}
             j == IF rest = {} THEN Len(s) + 1 ELSE Min(rest)
             e == IF j <= Len(s) /\ s[j] = "/" THEN j + 1 ELSE j
         IN  IF e <= Len(s) /\ s[e] = ">" THEN Match(i, e + 1, <<>>, <<>>)
             ELSE NoMatch

\* <[^>]+>
TagAt(s, i) ==
    IF s[i] = "<" /\ i + 1 <= Len(s) /\ s[i + 1] # ">" /\ FirstIn(s, i + 1, {">"}) # 0
    THEN Match(i, FirstIn(s, i + 1, {">"}) + 1, <<>>, <<>>)
    ELSE NoMatch

\* \n{3,}
NewlinesAt(s, i) ==
    IF ~StartsAt(s, i, <<"\n", "\n", "\n">>) THEN NoMatch
    ELSE LET rest == {j \in i..Len(s) : s[j] # "\n"}
         IN  Match(i, IF rest = {} THEN Len(s) + 1 ELSE Min(rest), <<>>, <<>>)

\* the text a match covers: m.group(0)
Group0(s, m) == SubSeq(s, m.start, m.end - 1)

\* s.strip()
StripWs(s) == Strip(s, Whitespace)

-----------------------------------------------------------------------------
(* html_to_markdown, step by step *)

\* one pass of the heading loop: <hN> to N '#' characters, a space, the body
HeadingLevel(s, level) ==
    ReSub(s, LAMBDA t, i : PairAt(t, i, <<"h">> \o Decimal(level)),
             LAMBDA m, k : Repeat("#", level) \o <<" ">> \o m.g1)

\* for level in range(1, 7)
RECURSIVE HeadingsFrom(_, _)
HeadingsFrom(s, level) ==
    IF level > 6 THEN s ELSE HeadingsFrom(HeadingLevel(s, level), level + 1)

Headings(s) == HeadingsFrom(s, 1)

\* _convert_blockquote
ConvertBlockquote(m) ==
    <<"\n", ">", " ">> \o Replace(StripWs(m.g1), <<"\n">>, <<"\n", ">", " ">>) \o <<"\n">>

Blockquotes(s) ==
    ReSub(s, LAMBDA t, i : PairAt(t, i, <<"b", "l", "o", "c", "k", "q", "u", "o", "t", "e">>),
             LAMBDA m, k : ConvertBlockquote(m))

\* re.findall(r'<li[^>]*>(.*?)</li>', inner, flags=re.DOTALL)
ListItems(inner) ==
    LET ms == AllMatches(inner, LAMBDA t, i : PairAt(t, i, <<"l", "i">>))
    IN  [j \in 1..Len(ms) |-> ms[j].g1]

\* _convert_ol
ConvertOl(m) ==
    LET items == ListItems(m.g1)
    IN  <<"\n">> \o Join([j \in 1..Len(items) |->
                            Decimal(j) \o <<".", " ">> \o StripWs(items[j])], <<"\n">>)
               \o <<"\n">>

OrderedLists(s) ==
    ReSub(s, LAMBDA t, i : PairAt(t, i, <<"o", "l">>), LAMBDA m, k : ConvertOl(m))

\* _convert_ul
ConvertUl(m) ==
    LET items == ListItems(m.g1)
    IN  <<"\n">> \o Join([j \in 1..Len(items) |-> <<"-", " ">> \o StripWs(items[j])], <<"\n">>)
               \o <<"\n">>

UnorderedLists(s) ==
    ReSub(s, LAMBDA t, i : PairAt(t, i, <<"u", "l">>), LAMBDA m, k : ConvertUl(m))

\* <strong> and <b> to **text**
Bold(s) ==
    LET strong == ReSub(s, LAMBDA t, i : PairAt(t, i, <<"s", "t", "r", "o", "n", "g">>),
                           LAMBDA m, k : <<"*", "*">> \o m.g1 \o <<"*", "*">>)
    IN  ReSub(strong, LAMBDA t, i : PairAt(t, i, <<"b">>),
                      LAMBDA m, k : <<"*", "*">> \o m.g1 \o <<"*", "*">>)

\* <em> and <i> to *text*
Italic(s) ==
    LET em == ReSub(s, LAMBDA t, i : PairAt(t, i, <<"e", "m">>),
                       LAMBDA m, k : <<"*">> \o m.g1 \o <<"*">>)
    IN  ReSub(em, LAMBDA t, i : PairAt(t, i, <<"i">>),
                  LAMBDA m, k : <<"*">> \o m.g1 \o <<"*">>)

\* <a href="URL">text</a> to [text](URL)
Links(s) ==
    ReSub(s, LinkAt, LAMBDA m, k : <<"[">> \o m.g2 \o <<"]", "(">> \o m.g1 \o <<")">>)

\* images, first those with an alt after the src, then the others
Images(s) ==
    LET withAlt == ReSub(s, ImgAltAt,
                         LAMBDA m, k : <<"!", "[">> \o m.g2 \o <<"]", "(">> \o m.g1 \o <<")">>)
    IN  ReSub(withAlt, ImgAt, LAMBDA m, k : <<"!", "[", "]", "(">> \o m.g1 \o <<")">>)

LineBreaks(s) == ReSub(s, BrAt, LAMBDA m, k : <<"\n">>)

Paragraphs(s) ==
    ReSub(s, LAMBDA t, i : PairAt(t, i, <<"p">>), LAMBDA m, k : m.g1 \o <<"\n", "\n">>)

\* the marker of the block saved with index n: f'___IFRAME_{n}___'
IframeMarker(n) == <<"_", "_", "_", "I", "F", "R", "A", "M", "E", "_">> \o Decimal(n) \o <<"_", "_", "_">>

ScriptMarker(n) == <<"_", "_", "_", "S", "C", "R", "I", "P", "T", "_">> \o Decimal(n) \o <<"_", "_", "_">>

\* the blocks _save_iframe appends, and the content with their markers
SavedIframes(s) ==
    LET ms == AllMatches(s, LAMBDA t, i : PairAtI(t, i, <<"i", "f", "r", "a", "m", "e">>))
    IN  [j \in 1..Len(ms) |-> Group0(s, ms[j])]

MarkIframes(s) ==
    ReSub(s, LAMBDA t, i : PairAtI(t, i, <<"i", "f", "r", "a", "m", "e">>),
             LAMBDA m, k : IframeMarker(k - 1))

SavedScripts(s) ==
    LET ms == AllMatches(s, LAMBDA t, i : PairAtI(t, i, <<"s", "c", "r", "i", "p", "t">>))
    IN  [j \in 1..Len(ms) |-> Group0(s, ms[j])]

MarkScripts(s) ==
    ReSub(s, LAMBDA t, i : PairAtI(t, i, <<"s", "c", "r", "i", "p", "t">>),
             LAMBDA m, k : ScriptMarker(k - 1))

\* re.sub(r'<[^>]+>', '', content)
StripTags(s) == ReSub(s, TagAt, LAMBDA m, k : <<>>)

\* for i, iframe in enumerate(iframes): content = content.replace(...)
RECURSIVE RestoreIframesFrom(_, _, _)
RestoreIframesFrom(s, saved, j) ==
    IF j > Len(saved) THEN s
    ELSE RestoreIframesFrom(
             Replace(s, IframeMarker(j - 1), <<"\n", "\n">> \o saved[j] \o <<"\n", "\n">>),
             saved, j + 1)

RestoreIframes(s, saved) == RestoreIframesFrom(s, saved, 1)

RECURSIVE RestoreScriptsFrom(_, _, _)
RestoreScriptsFrom(s, saved, j) ==
    IF j > Len(saved) THEN s
    ELSE RestoreScriptsFrom(
             Replace(s, ScriptMarker(j - 1), <<"\n", "\n">> \o saved[j] \o <<"\n", "\n">>),
             saved, j + 1)

RestoreScripts(s, saved) == RestoreScriptsFrom(s, saved, 1)

\* re.sub(r'\n{3,}', '\n\n', content)
CollapseNewlines(s) == ReSub(s, NewlinesAt, LAMBDA m, k : <<"\n", "\n">>)

\* the five replace calls of the residual entities
ResidualEntities(s) ==
    Replace(Replace(Replace(Replace(Replace(s,
        <<"&", "n", "b", "s", "p", ";">>, <<" ">>), <<"&", "a", "m", "p", ";">>, <<"&">>), <<"&", "q", "u", "o", "t", ";">>, <<"\"">>),
        <<"&", "l", "t", ";">>, <<"<">>), <<"&", "g", "t", ";">>, <<">">>)

-----------------------------------------------------------------------------
(* html_to_markdown as the sequence of its steps over `content` *)

\* the bound on the number of pieces a body is put together from
MaxPieces == 3

\* the pieces of the bodies: text, entities, tags and whole elements
Pieces ==
    {<<"x">>, <<"\n">>,
     <<"&", "a", "m", "p", ";">>, <<"&", "a", "m", "p", ";", "l", "t", ";", "p", "&", "a", "m", "p", ";", "g", "t", ";">>, <<"_", "_", "_", "I", "F", "R", "A", "M", "E", "_", "0", "_", "_", "_">>,
     <<"<", "i", "f", "r", "a", "m", "e", ">">>, <<"<", "/", "i", "f", "r", "a", "m", "e", ">">>, <<"<", "i", "f", "r", "a", "m", "e", " ", "s", "r", "c", "=", "\"", "v", "\"", ">", "y", "<", "/", "i", "f", "r", "a", "m", "e", ">">>,
     <<"<", "s", "c", "r", "i", "p", "t", ">">>, <<"<", "/", "s", "c", "r", "i", "p", "t", ">">>,
     <<"<", "i", ">">>, <<"<", "/", "i", ">">>, <<"<", "b", ">">>, <<"<", "/", "b", ">">>, <<"<", "p", ">">>, <<"<", "/", "p", ">">>, <<"<", "d", "i", "v", ">">>,
     <<"<", "i", "m", "g", " ", "s", "r", "c", "=", "\"", "a", "\"", ">">>, <<"<", "i", "m", "g", " ", "s", "r", "c", "=", "\"", "a", "\"", " ", "a", "l", "t", "=", "\"", "c", "\"", "/", ">">>, <<"<", "b", "r", "/", ">">>,
     <<"<", "a", " ", "h", "r", "e", "f", "=", "\"", "u", "\"", ">", "t", "<", "/", "a", ">">>, <<"<", "h", "2", ">", "t", "<", "/", "h", "2", ">">>, <<"<", "b", "l", "o", "c", "k", "q", "u", "o", "t", "e", ">", "q", "<", "/", "b", "l", "o", "c", "k", "q", "u", "o", "t", "e", ">">>,
     <<"<", "u", "l", ">", "<", "l", "i", ">", "a", "<", "/", "l", "i", ">", "<", "/", "u", "l", ">">>, <<"<", "o", "l", ">", "<", "l", "i", ">", "a", "<", "/", "l", "i", ">", "<", "/", "o", "l", ">">>}

Bodies == {Concat(ps) : ps \in SeqUpTo(Pieces, MaxPieces)}

InitHtml ==
    /\ pc = "start"
    /\ calls = 1
    /\ html_content \in Bodies
    /\ content = <<>>
    /\ iframes = <<>>
    /\ scripts = <<>>
    /\ markdown = None
    /\ previous = None
    /\ title = <<>> /\ slug = None
    /\ xml_source = <<>> /\ post_types = None /\ post_statuses = None
    /\ ns = None /\ posts = <<>>
    /\ NoFiles

\* lines 21-27: the early return on an empty body, else html.unescape and the
\* removal of the CDATA wrappers
Decode ==
    /\ pc = "start"
    /\ IF html_content = <<>>
       THEN /\ markdown' = <<>>
            /\ pc' = "done"
            /\ UNCHANGED content
       ELSE /\ content' = RemoveCdata(Unescape(html_content))
            /\ pc' = "headings"
            /\ UNCHANGED markdown
    /\ UNCHANGED <<calls, html_content, iframes, scripts, previous, slugVars, xmlVars, fileVars>>

\* lines 32-40
ConvertHeadings ==
    /\ pc = "headings"
    /\ content' = Headings(content)
    /\ pc' = "blocks"
    /\ UNCHANGED <<calls, html_content, iframes, scripts, markdown, previous,
                   slugVars, xmlVars, fileVars>>

\* lines 43-63: blockquotes, ordered lists, unordered lists
ConvertBlocks ==
    /\ pc = "blocks"
    /\ content' = UnorderedLists(OrderedLists(Blockquotes(content)))
    /\ pc' = "inline"
    /\ UNCHANGED <<calls, html_content, iframes, scripts, markdown, previous,
                   slugVars, xmlVars, fileVars>>

\* lines 68-81: bold, italic, links
ConvertInline ==
    /\ pc = "inline"
    /\ content' = Links(Italic(Bold(content)))
    /\ pc' = "images"
    /\ UNCHANGED <<calls, html_content, iframes, scripts, markdown, previous,
                   slugVars, xmlVars, fileVars>>

\* lines 84-99: images, line breaks, paragraphs
ConvertImages ==
    /\ pc = "images"
    /\ content' = Paragraphs(LineBreaks(Images(content)))
    /\ pc' = "iframes"
    /\ UNCHANGED <<calls, html_content, iframes, scripts, markdown, previous,
                   slugVars, xmlVars, fileVars>>

\* lines 104-113
SaveIframes ==
    /\ pc = "iframes"
    /\ iframes' = SavedIframes(content)
    /\ content' = MarkIframes(content)
    /\ pc' = "scripts"
    /\ UNCHANGED <<calls, html_content, scripts, markdown, previous, slugVars, xmlVars, fileVars>>

\* lines 116-125
SaveScripts ==
    /\ pc = "scripts"
    /\ scripts' = SavedScripts(content)
    /\ content' = MarkScripts(content)
    /\ pc' = "strip"
    /\ UNCHANGED <<calls, html_content, iframes, markdown, previous, slugVars, xmlVars, fileVars>>

\* line 128
StripRemainingTags ==
    /\ pc = "strip"
    /\ content' = StripTags(content)
    /\ pc' = "restore"
    /\ UNCHANGED <<calls, html_content, iframes, scripts, markdown, previous,
                   slugVars, xmlVars, fileVars>>

\* lines 131-134: the iframes first, then the scripts
Restore ==
    /\ pc = "restore"
    /\ content' = RestoreScripts(RestoreIframes(content, iframes), scripts)
    /\ pc' = "cleanup"
    /\ UNCHANGED <<calls, html_content, iframes, scripts, markdown, previous,
                   slugVars, xmlVars, fileVars>>

\* lines 137-144
CleanUp ==
    /\ pc = "cleanup"
    /\ markdown' = StripWs(ResidualEntities(CollapseNewlines(content)))
    /\ pc' = "done"
    /\ UNCHANGED <<calls, html_content, content, iframes, scripts, previous,
                   slugVars, xmlVars, fileVars>>

\* html_to_markdown called on its own return value
CallAgain ==
    /\ pc = "done"
    /\ calls = 1
    /\ calls' = 2
    /\ previous' = [html_content |-> html_content, markdown |-> markdown,
                    iframes |-> iframes, scripts |-> scripts]
    /\ html_content' = markdown
    /\ content' = <<>>
    /\ iframes' = <<>>
    /\ scripts' = <<>>
    /\ markdown' = None
    /\ pc' = "start"
    /\ UNCHANGED <<slugVars, xmlVars, fileVars>>

NextHtml ==
    \/ Decode
    \/ ConvertHeadings
    \/ ConvertBlocks
    \/ ConvertInline
    \/ ConvertImages
    \/ SaveIframes
    \/ SaveScripts
    \/ StripRemainingTags
    \/ Restore
    \/ CleanUp
    \/ CallAgain

SpecHtml == InitHtml /\ [][NextHtml]_vars

(* What the claims about the Markup Transformer speak of *)

\* the text t occurs in s
Contains(s, t) == FirstAt(s, 1, t) # 0

\* the complete <iframe>...</iframe> and <script>...</script> blocks of a text
IframeBlocks(s) ==
    LET ms == AllMatches(s, LAMBDA t, i : PairAtI(t, i, <<"i", "f", "r", "a", "m", "e">>))
    IN  {Group0(s, ms[j]) : j \in 1..Len(ms)}

ScriptBlocks(s) ==
    LET ms == AllMatches(s, LAMBDA t, i : PairAtI(t, i, <<"s", "c", "r", "i", "p", "t">>))
    IN  {Group0(s, ms[j]) : j \in 1..Len(ms)}

\* C2: every complete iframe or script block of the body appears in the
\* returned Markdown unchanged, character for character, whatever other
\* markup precedes or follows it.
C2_BlocksPreservedVerbatim ==
    (pc = "done" /\ calls = 1) =>
        \A block \in IframeBlocks(html_content) \cup ScriptBlocks(html_content) :
            Contains(markdown, block)

\* the tag names steps 1-2 handle
HandledTags ==
    {<<"h", "1">>, <<"h", "2">>, <<"h", "3">>, <<"h", "4">>, <<"h", "5">>, <<"h", "6">>, <<"b", "l", "o", "c", "k", "q", "u", "o", "t", "e">>,
     <<"o", "l">>, <<"u", "l">>, <<"l", "i">>, <<"s", "t", "r", "o", "n", "g">>, <<"b">>, <<"e", "m">>, <<"i">>, <<"a">>,
     <<"i", "m", "g">>, <<"b", "r">>, <<"p">>}

\* a literal opening or closing tag named name starts at i
TagNamedAt(s, i, name) ==
    \/ /\ StartsAt(s, i, <<"<">> \o name)
       /\ i + Len(name) + 1 <= Len(s)
       /\ s[i + Len(name) + 1] \in {">", "/"} \cup Whitespace
       /\ FirstIn(s, i, {">"}) # 0
    \/ StartsAt(s, i, <<"<", "/">> \o name \o <<">">>)

\* the text outside every iframe and script element
OutsideBlocks(s) ==
    LET noIframes == ReSub(s, LAMBDA t, i : PairAtI(t, i, <<"i", "f", "r", "a", "m", "e">>),
                              LAMBDA m, k : <<>>)
    IN  ReSub(noIframes, LAMBDA t, i : PairAtI(t, i, <<"s", "c", "r", "i", "p", "t">>),
                         LAMBDA m, k : <<>>)

\* C3: outside the preserved iframe/script blocks the returned Markdown holds
\* no literal opening or closing tag of a kind steps 1-2 handle.
C3_NoHandledTagSurvives ==
    (pc = "done" /\ calls = 1) =>
        LET out == OutsideBlocks(markdown)
        IN  \A i \in 1..Len(out) : \A name \in HandledTags : ~TagNamedAt(out, i, name)

\* the characters of s that are not whitespace
NonWhitespace(s) == SelectSeq(s, LAMBDA c : c \notin Whitespace)

\* C6: html_to_markdown applied to its own result removes nothing but
\* whitespace: the second result is the first up to whitespace.
C6_SecondPassOnlyWhitespace ==
    (pc = "done" /\ calls = 2) =>
        NonWhitespace(markdown) = NonWhitespace(previous.markdown)

\* the positions where t occurs in s
Occurrences(s, t) == {i \in 1..Len(s) : StartsAt(s, i, t)}

\* a placeholder marker, ___IFRAME_n___ or ___SCRIPT_n___, starts at i
MarkerAt(s, i) ==
    \E head \in {<<"_", "_", "_", "I", "F", "R", "A", "M", "E", "_">>, <<"_", "_", "_", "S", "C", "R", "I", "P", "T", "_">>} :
        /\ StartsAt(s, i, head)
        /\ LET rest == {j \in i + Len(head)..Len(s) : s[j] \notin Digits}
               e == IF rest = {} THEN Len(s) + 1 ELSE Min(rest)
           IN  e > i + Len(head) /\ StartsAt(s, e, <<"_", "_", "_">>)

\* the entries of a table appear once each, in the table's order
AppearOnceInOrder(s, saved) ==
    /\ \A j \in 1..Len(saved) :
           Cardinality(Occurrences(s, saved[j]))
               = Cardinality({k \in 1..Len(saved) : saved[k] = saved[j]})
    /\ \A j, k \in 1..Len(saved) :
           (j < k /\ saved[j] # saved[k] /\ Contains(s, saved[j]) /\ Contains(s, saved[k]))
               => FirstAt(s, 1, saved[j]) < FirstAt(s, 1, saved[k])

\* C10: when html_to_markdown returns, every block of the two placeholder
\* tables appears in the output exactly once, in the order extracted, and no
\* placeholder marker remains in the output.
C10_BlocksRestoredOnce ==
    (pc = "done" /\ calls = 1) =>
        /\ AppearOnceInOrder(markdown, iframes)
        /\ AppearOnceInOrder(markdown, scripts)
        /\ \A i \in 1..Len(markdown) : ~MarkerAt(markdown, i)

\* the image reference an <img> tag with a src stands for: ![alt](src) when an
\* alt attribute follows the src, ![](src) otherwise
ImageReference(s, m) ==
    LET withAlt == ImgAltAt(s, m.start)
    IN  IF withAlt.ok /\ withAlt.end = m.end
        THEN <<"!", "[">> \o withAlt.g2 \o <<"]", "(">> \o withAlt.g1 \o <<")">>
        ELSE <<"!", "[", "]", "(">> \o m.g1 \o <<")">>

\* the image references of the <img> tags of a body that have a src attribute
ImageReferences(s) ==
    LET ms == AllMatches(s, ImgAt)
    IN  {ImageReference(s, ms[j]) : j \in 1..Len(ms)}

\* C11: each <img> tag of the body that has a src attribute is rewritten to
\* its image reference, ![alt](src) or ![](src), whatever other markup (bold
\* or italic elements later in the body, for example) surrounds the tag.
C11_ImagesRewritten ==
    (pc = "done" /\ calls = 1) =>
        \A ref \in ImageReferences(html_content) : Contains(markdown, ref)

-----------------------------------------------------------------------------
(* generate_markdown_files: the filename and the header of each record *)

\* the number a text of digits stands for (a leading space counts as nothing)
RECURSIVE NumberOf(_)
NumberOf(t) ==
    IF t = <<>> THEN 0
    ELSE LET last == t[Len(t)]
             digit == CHOOSE n \in 0..9 : Decimal(n) = <<IF last = " " THEN "0" ELSE last>>
         IN  10 * NumberOf(SubSeq(t, 1, Len(t) - 1)) + digit

\* n written with at least two digits, as strftime's %m and %d do
TwoDigits(n) == IF n < 10 THEN <<"0">> \o Decimal(n) ELSE Decimal(n)

\* the texts strptime's directives match:
\* %m is 1[0-2]|0[1-9]|[1-9], %d is 3[0-1]|[1-2]\d|0[1-9]|[1-9]| [1-9],
\* %H is 2[0-3]|[0-1]\d|\d, %M is [0-5]\d|\d, %S is 6[0-1]|[0-5]\d|\d
MonthTexts == {Decimal(n) : n \in 1..9} \cup {TwoDigits(n) : n \in 1..12}

DayTexts ==
    {Decimal(n) : n \in 1..9} \cup {TwoDigits(n) : n \in 1..31}
        \cup {<<" ">> \o Decimal(n) : n \in 1..9}

HourTexts == {Decimal(n) : n \in 0..9} \cup {TwoDigits(n) : n \in 0..23}

MinuteTexts == {Decimal(n) : n \in 0..9} \cup {TwoDigits(n) : n \in 0..59}

SecondTexts == {Decimal(n) : n \in 0..9} \cup {TwoDigits(n) : n \in 0..61}

\* the days of a month, as the datetime constructor checks them
DaysIn(year, month) ==
    IF month = 2
    THEN IF year % 4 = 0 /\ (year % 100 # 0 \/ year % 400 = 0) THEN 29 ELSE 28
    ELSE IF month \in {4, 6, 9, 11} THEN 30 ELSE 31

\* what strptime raises ValueError for
NoDate == [ok |-> FALSE, year |-> 0, month |-> 0, day |-> 0]

\* the datetime of the fields read, ValueError when the constructor rejects them
DateOf(y, m, d, S) ==
    LET year == NumberOf(y)
        month == NumberOf(m)
        day == NumberOf(d)
    IN  IF year >= 1 /\ day <= DaysIn(year, month) /\ NumberOf(S) <= 59
        THEN [ok |-> TRUE, year |-> year, month |-> month, day |-> day]
        ELSE NoDate

\* s[i..j-1], the empty text when j is not after i
Between(s, i, j) == IF j > i THEN SubSeq(s, i, j - 1) ELSE <<>>

\* the year and month a date text opens with, \d\d\d\d-(month)-, and where the
\* day starts (0 when the text does not open so)
DayStart(s) ==
    LET dash == FirstIn(s, 6, {"-"})
    IN  IF /\ Len(s) >= 5
           /\ \A k \in 1..4 : s[k] \in Digits
           /\ s[5] = "-"
           /\ dash # 0
           /\ Between(s, 6, dash) \in MonthTexts
        THEN dash + 1
        ELSE 0

\* datetime.strptime(s, '%Y-%m-%d'): the whole text has to match
StrptimeDate(s) ==
    LET d == DayStart(s)
    IN  IF d # 0 /\ Between(s, d, Len(s) + 1) \in DayTexts
        THEN DateOf(SubSeq(s, 1, 4), Between(s, 6, d - 1), Between(s, d, Len(s) + 1),
                    <<"0">>)
        ELSE NoDate

\* the first position from i on that holds no whitespace, Len(s) + 1 if none
SkipWhitespace(s, i) ==
    LET rest == {j \in i..Len(s) : s[j] \notin Whitespace}
    IN  IF rest = {} THEN Len(s) + 1 ELSE Min(rest)

\* datetime.strptime(s, '%Y-%m-%d %H:%M:%S'): the blank of the format matches
\* a run of whitespace, the whole text has to match
StrptimeDateTime(s) ==
    LET d == DayStart(s)
        \* the day ends where whitespace follows; the alternative ' [1-9]'
        \* starts with a blank itself
        from == IF d # 0 /\ d <= Len(s) /\ s[d] = " " THEN d + 1 ELSE d
        ws == IF d = 0 THEN 0 ELSE FirstIn(s, from, Whitespace)
        H == IF ws = 0 THEN 0 ELSE SkipWhitespace(s, ws)
        c1 == IF H = 0 THEN 0 ELSE FirstIn(s, H, {":"})
        c2 == IF c1 = 0 THEN 0 ELSE FirstIn(s, c1 + 1, {":"})
    IN  IF /\ c2 # 0
           /\ Between(s, d, ws) \in DayTexts
           /\ Between(s, H, c1) \in HourTexts
           /\ Between(s, c1 + 1, c2) \in MinuteTexts
           /\ Between(s, c2 + 1, Len(s) + 1) \in SecondTexts
        THEN DateOf(SubSeq(s, 1, 4), Between(s, 6, d - 1), Between(s, d, ws),
                    Between(s, c2 + 1, Len(s) + 1))
        ELSE NoDate

\* dt.strftime('%Y%m%d') + '-'  (%Y is the year's decimal digits)
DatePrefix(dt) ==
    Decimal(dt.year) \o TwoDigits(dt.month) \o TwoDigits(dt.day) \o <<"-">>

\* s.split()[0]: the first run of non-whitespace; the empty text stands for the
\* IndexError of a text that is all whitespace
FirstWord(s) ==
    LET b == SkipWhitespace(s, 1)
        e == FirstIn(s, b, Whitespace)
    IN  IF b > Len(s) THEN <<>>
        ELSE Between(s, b, IF e = 0 THEN Len(s) + 1 ELSE e)

\* lines 302-312: the prefix of the filename
Prefix(date, withPrefix) ==
    IF ~withPrefix \/ date = <<>> THEN <<>>
    ELSE LET full == StrptimeDateTime(date)
             short == StrptimeDate(FirstWord(date))
         IN  IF full.ok THEN DatePrefix(full)
             ELSE IF short.ok THEN DatePrefix(short)
             ELSE <<>>

\* line 301: the slug, or the slug made from the title when there is none
Base(post) == IF post.slug # <<>> THEN post.slug ELSE sanitize_filename(post.title)

\* line 313
Filename(post, withPrefix) == Prefix(post.date, withPrefix) \o Base(post) \o <<".", "m", "d">>

\* repr() of a str: in single quotes, in double quotes when the text holds a
\* single quote and no double quote; the backslash, the quote in use and the
\* characters that do not print are escaped
Repr(s) ==
    LET chars == {s[k] : k \in 1..Len(s)}
        quote == IF "'" \in chars /\ "\"" \notin chars THEN "\"" ELSE "'"
        esc(c) == IF c = "\\" THEN <<"\\", "\\">>
                  ELSE IF c = quote THEN <<"\\", c>>
                  ELSE IF c = "\n" THEN <<"\\", "n">>
                  ELSE IF c = "\t" THEN <<"\\", "t">>
                  ELSE IF c = "\r" THEN <<"\\", "r">>
                  ELSE IF c = "\f" THEN <<"\\", "x", "0", "c">>
                  ELSE IF c = NBSP THEN <<"\\", "x", "a", "0">>
                  ELSE <<c>>
    IN  <<quote>> \o Concat([k \in 1..Len(s) |-> esc(s[k])]) \o <<quote>>

\* str() of a list of str, as the f-strings of lines 322 and 324 format it
ListRepr(texts) ==
    <<"[">> \o Join([k \in 1..Len(texts) |-> Repr(texts[k])], <<",", " ">>) \o <<"]">>

\* lines 317-328: the front-matter block, then the body
YamlDocument(post, md_body) ==
    LET lines == <<<<"-", "-", "-">>, <<"t", "i", "t", "l", "e", ":", " ", "\"">> \o post.title \o <<"\"">>>>
                 \o (IF post.date # <<>> THEN <<<<"d", "a", "t", "e", ":", " ">> \o post.date>> ELSE <<>>)
                 \o (IF post.categories # <<>>
                     THEN <<<<"c", "a", "t", "e", "g", "o", "r", "i", "e", "s", ":", " ">> \o ListRepr(post.categories)>> ELSE <<>>)
                 \o (IF post.tags # <<>>
                     THEN <<<<"t", "a", "g", "s", ":", " ">> \o ListRepr(post.tags)>> ELSE <<>>)
                 \o <<<<"-", "-", "-">>, <<>>, md_body>>
    IN  Join(lines, <<"\n">>)

\* lines 330-334: the heading, the published line, then the body
InlineDocument(post, md_body) ==
    LET parts == <<<<"#", " ">> \o post.title \o <<"\n">>>>
                 \o (IF post.date # <<>>
                     THEN <<<<"*", "P", "u", "b", "l", "i", "s", "h", "e", "d", ":", " ">> \o post.date \o <<"*", "\n">>>> ELSE <<>>)
                 \o <<md_body>>
    IN  Join(parts, <<"\n">>)

\* lines 316-334
Document(post, md_body, yaml) ==
    IF yaml THEN YamlDocument(post, md_body) ELSE InlineDocument(post, md_body)

-----------------------------------------------------------------------------
(* generate_markdown_files and the write loop of main, as a state machine:   *)
(* for each record the steps of html_to_markdown run on its content, Emit    *)
(* appends the record's (filename, content) pair, and when the list is done  *)
(* WriteFile writes the pairs into the output directory one after another.   *)
(* The records are the ones parse_wordpress_xml returns, their texts at      *)
(* character level; a slug, date or content of None passes every test of     *)
(* generate_markdown_files as the empty text does, and is drawn as it.       *)

MaxPosts == 2

Post(title_, slug_, date_, content_, categories_, tags_) ==
    [title |-> title_, content |-> content_, date |-> date_, slug |-> slug_,
     type |-> <<"p", "o", "s", "t">>, status |-> <<"p", "u", "b", "l", "i", "s", "h">>,
     categories |-> categories_, tags |-> tags_]

\* records that differ in what the filename is made of
NamedPosts ==
    {Post(t, s, d, <<"x">>, <<>>, <<>>) :
        t \in {<<"A">>, <<"a", "!">>, <<"B", " ", "c">>},
        s \in {<<>>, <<"s">>},
        d \in {<<>>, <<"2", "0", "2", "0", "-", "0", "1", "-", "0", "2", " ", "0", "3", ":", "0", "4", ":", "0", "5">>, <<"2", "0", "2", "0", "-", "0", "1", "-", "0", "2", " ", "1", "0", ":", "0", "0", ":", "0", "0">>,
               <<"2", "0", "2", "0", "-", "1", "-", "3">>, <<"s", "o", "o", "n">>}}

\* records that differ in what the document is made of
WrittenPosts ==
    {Post(<<"A">>, <<"s">>, d, c, cs, ts) :
        d \in {<<>>, <<"2", "0", "2", "0", "-", "0", "2", "-", "3", "0", " ", "0", "0", ":", "0", "0", ":", "0", "0">>},
        c \in {<<>>, <<"<", "p", ">", "x", "<", "/", "p", ">">>, <<"<", "b", ">", "y", "<", "/", "b", ">", "<", "b", "r", "/", ">">>},
        cs \in {<<>>, <<<<"a">>>>, <<<<"a">>, <<"b", "'", "c">>>>},
        ts \in {<<>>, <<<<"t">>>>}}

InitFiles ==
    /\ posts \in SeqUpTo(NamedPosts, MaxPosts) \cup SeqUpTo(WrittenPosts, MaxPosts)
    /\ date_prefix \in BOOLEAN
    /\ yaml_frontmatter \in BOOLEAN
    /\ results = <<>>
    /\ written = 0
    /\ directory = <<>>
    /\ pc = IF posts = <<>> THEN "write" ELSE "start"
    /\ calls = 1
    /\ html_content = IF posts = <<>> THEN <<>> ELSE posts[1].content
    /\ content = <<>>
    /\ iframes = <<>>
    /\ scripts = <<>>
    /\ markdown = None
    /\ previous = None
    /\ title = <<>> /\ slug = None
    /\ xml_source = <<>> /\ post_types = None /\ post_statuses = None
    /\ ns = None

\* lines 297-336: html_to_markdown has returned the body of the record at
\* hand; its pair is appended and the loop goes to the next record, or ends
Emit ==
    /\ pc = "done"
    /\ Len(results) < Len(posts)
    /\ LET post == posts[Len(results) + 1]
       IN  results' = Append(results,
                             <<Filename(post, date_prefix),
                               Document(post, markdown, yaml_frontmatter)>>)
    /\ IF Len(results) + 1 < Len(posts)
       THEN /\ html_content' = posts[Len(results) + 2].content
            /\ content' = <<>>
            /\ iframes' = <<>>
            /\ scripts' = <<>>
            /\ markdown' = None
            /\ pc' = "start"
       ELSE /\ pc' = "write"
            /\ UNCHANGED <<html_content, content, iframes, scripts, markdown>>
    /\ UNCHANGED <<calls, previous, date_prefix, yaml_frontmatter, written, directory,
                   slugVars, xmlVars>>

\* lines 372-375: the next pair is written, open(fpath, 'w') replacing a file
\* of the same name
WriteFile ==
    /\ pc = "write"
    /\ written < Len(results)
    /\ LET pair == results[written + 1]
       IN  directory' = (pair[1] :> pair[2]) @@ directory
    /\ written' = written + 1
    /\ UNCHANGED <<pc, date_prefix, yaml_frontmatter, results, htmlVars, slugVars,
                   xmlVars>>

NextFiles ==
    \/ Decode
    \/ ConvertHeadings
    \/ ConvertBlocks
    \/ ConvertInline
    \/ ConvertImages
    \/ SaveIframes
    \/ SaveScripts
    \/ StripRemainingTags
    \/ Restore
    \/ CleanUp
    \/ Emit
    \/ WriteFile

SpecFiles == InitFiles /\ [][NextFiles]_vars

(* What the claim about the generated files speaks of *)

\* the run has written every pair
AllWritten == pc = "write" /\ written = Len(results)

\* C12: a conversion run produces one document per record:
\* generate_markdown_files returns one pair per record with pairwise distinct
\* filenames, so that after the write loop no record's document has been
\* overwritten and the directory holds as many documents as there are records.
C12_OneDocumentPerRecord ==
    AllWritten =>
        /\ Len(results) = Len(posts)
        /\ \A i, j \in 1..Len(results) : i # j => results[i][1] # results[j][1]
        /\ Cardinality(DOMAIN directory) = Len(posts)
        /\ \A i \in 1..Len(results) :
               /\ results[i][1] \in DOMAIN directory
               /\ directory[results[i][1]] = results[i][2]

====
